---- MODULE Spec2Model ----
(***************************************************************************)
(* Orbit validity resolution and selection of sentineleof:                 *)
(*   eof/scihubclient.py  lastval_cover, ScihubGnssClient.query_orbit_by_dt *)
(*   eof/download.py      eof_list, _dedupe_links, _pick_precise_file,      *)
(*                        _download_and_write, download_eofs                *)
(* Four specifications: SpecSel applies lastval_cover and _dedupe_links to  *)
(* drawn inputs, SpecQuery runs query_orbit_by_dt against a catalog server, *)
(* SpecDl runs download_eofs with its pool of workers, SpecSingle runs it    *)
(* for a single date; Spec starts in any of the first three.                *)
(* Time is counted in minutes.  An orbit file name is the tuple            *)
(*   <<mission, product type, creation time, validity start, validity stop>>*)
(* which is what the fixed-format name S1A_OPER_AUX_POEORB_OPOD_<created>_  *)
(* V<start>_<stop>.EOF carries.                                             *)
(***************************************************************************)
EXTENDS Integers, Sequences, FiniteSets, TLC

VARIABLES
    \* lastval_cover / _dedupe_links applied to drawn inputs
    data, t0, t1, coverOut, dedupeOut,
    \* ScihubGnssClient.query_orbit_by_dt
    qCatalog,     \* identifiers the catalog server holds
    qBatch,       \* zip(missions, orbit_dts)
    qOrbitType,   \* the orbit_type argument
    qIdx,         \* position of the for loop
    qPc,          \* "loop" | "resorb" | "returned" | "raised" | "off"
    qQuery,       \* the dict query (its identifiers)
    qRemaining,   \* remaining_dates
    qRaised,      \* the exception that left the call, or "none"
    qTried,       \* per request: the product types asked of the server
    qResult,      \* per request: what the loop body found
    qReturn,      \* the value query_orbit_by_dt returned
    \* download_eofs and its pool of _download_and_write workers
    dBatch,       \* zip(missions, orbit_dts)
    dDisk,        \* the file names present in save_dir
    wPc,          \* per worker: "list_precise" | "list_restituted" | "check" | "get" | "done"
    wFetched,     \* per worker: the listing urls eof_list requested
    wListed,      \* per worker: what eof_list returned (links, orbit_type)
    wLinks,       \* per worker: cur_links after _dedupe_links / _pick_precise_file
    wI,           \* per worker: position of the for loop over cur_links
    wSaved,       \* per worker: saved_files
    wResult,      \* per worker: the AsyncResult
    wDoneOrder,   \* the workers in the order their tasks ended
    mPc,          \* download_eofs: "collect" | "returned" | "raised" | "off"
    mIdx,         \* position of the loop over result_dt_dict
    mFilenames,   \* filenames
    mRaised       \* the exception that left download_eofs, or "none"

selVars == <<data, t0, t1, coverOut, dedupeOut>>
qVars == <<qCatalog, qBatch, qOrbitType, qIdx, qPc, qQuery, qRemaining,
           qRaised, qTried, qResult, qReturn>>
wVars == <<wPc, wFetched, wListed, wLinks, wI, wSaved, wResult, wDoneOrder>>
mVars == <<mPc, mIdx, mFilenames, mRaised>>
dVars == <<dBatch, dDisk, wVars, mVars>>
vars == <<selVars, qVars, dVars>>

---------------------------------------------------------------------------
\* datetime.timedelta
Minutes(n) == n
Hours(n) == 60 * n
Days(n) == 1440 * n
\* datetime.date(): the day an instant falls on
DateOf(t) == t \div Days(1)

PRECISE_ORBIT == "POEORB"
RESTITUTED_ORBIT == "RESORB"
Missions == {"S1A", "S1B"}

\* products.SentinelOrbit(filename): the fields parsed out of the name
SentinelOrbit(fn) ==
    [filename |-> fn, mission |-> fn[1], orbit_type |-> fn[2],
     created_time |-> fn[3], start_time |-> fn[4], stop_time |-> fn[5],
     date |-> DateOf(fn[4])]

get_validity_info(products) ==
    [i \in 1..Len(products) |-> SentinelOrbit(products[i])]

\* list.sort(key=created_time, reverse=True): stable, equal keys keep their order
RECURSIVE InsertByCreated(_, _)
InsertByCreated(sorted, item) ==
    IF sorted = <<>> THEN <<item>>
    ELSE IF Head(sorted).created_time >= item.created_time
         THEN <<Head(sorted)>> \o InsertByCreated(Tail(sorted), item)
         ELSE <<item>> \o sorted

\* variant: the sort left out, the list kept in listing order
SortOmitted(items) == items

RECURSIVE SortByCreatedDesc(_)
SortByCreatedDesc(items) ==
    IF items = <<>> THEN <<>>
    ELSE InsertByCreated(SortByCreatedDesc(SubSeq(items, 1, Len(items) - 1)),
                         items[Len(items)])

\* variant: overlap accepted in place of containment
CoversOverlap(item, a, b) == item.start_time <= b /\ item.stop_time >= a

Covers(item, a, b) == item.start_time <= a /\ item.stop_time >= b

lastval_cover(a, b, items) ==
    LET candidates == SelectSeq(items, LAMBDA item : Covers(item, a, b))
    IN  IF candidates = <<>>
        THEN [raised |-> "ValidityError", value |-> <<>>]
        ELSE [raised |-> "none",
              value |-> SortByCreatedDesc(candidates)[1].filename]

\* link = url + filename; link.split("/")[-1] gives the file name back
Link(url, fn) == <<url, fn>>
Basename(link) == link[2]

\* variant: the comparison inverted, later links of another day dropped
RECURSIVE DedupeRestInverted(_, _)
DedupeRestInverted(links, orb1) ==
    IF links = <<>> THEN <<>>
    ELSE IF SentinelOrbit(Basename(Head(links))).date = orb1.date
         THEN <<Head(links)>> \o DedupeRestInverted(Tail(links), orb1)
         ELSE DedupeRestInverted(Tail(links), orb1)

RECURSIVE DedupeRest(_, _)
DedupeRest(links, orb1) ==
    IF links = <<>> THEN <<>>
    ELSE IF SentinelOrbit(Basename(Head(links))).date # orb1.date
         THEN <<Head(links)>> \o DedupeRest(Tail(links), orb1)
         ELSE DedupeRest(Tail(links), orb1)

\* links[0] of an empty list is an IndexError
_dedupe_links(links) ==
    IF links = <<>> THEN [raised |-> "IndexError", value |-> <<>>]
    ELSE [raised |-> "none",
          value |-> <<links[1]>> \o
                    DedupeRest(Tail(links), SentinelOrbit(Basename(links[1])))]

\* variant: only the validity start is compared
PickStartOnly(links, sent_date) ==
    SelectSeq(links, LAMBDA link :
        DateOf(SentinelOrbit(Basename(link)).start_time) = DateOf(sent_date - Days(1)))

_pick_precise_file(links, sent_date) ==
    SelectSeq(links, LAMBDA link :
        LET so == SentinelOrbit(Basename(link))
        IN  /\ DateOf(so.start_time) = DateOf(sent_date - Days(1))
            /\ DateOf(so.stop_time) = DateOf(sent_date + Days(1)))

---------------------------------------------------------------------------
\* Inputs of the selector and the deduplicator
MaxLen == 3
MaxDays == 2
MaxCreated == 2

SeqsUpTo(S, n) == UNION {[1..k -> S] : k \in 0..n}

SelGrid == {Days(k) : k \in 0..MaxDays}
SelWindows == {w \in SelGrid \X SelGrid : w[1] < w[2]}
SelFiles == {<<"S1A", PRECISE_ORBIT, c, w[1], w[2]>> :
                c \in 1..MaxCreated, w \in SelWindows}
SelUrl == <<PRECISE_ORBIT, 0>>
NotCalled == [raised |-> "notcalled", value |-> <<>>]

SelIdle ==
    /\ data = <<>> /\ t0 = 0 /\ t1 = 0
    /\ coverOut = [raised |-> "off", value |-> <<>>]
    /\ dedupeOut = [raised |-> "off", value |-> <<>>]

QIdle ==
    /\ qCatalog = {} /\ qBatch = <<>> /\ qOrbitType = "precise"
    /\ qIdx = 1 /\ qPc = "off" /\ qQuery = {} /\ qRemaining = <<>>
    /\ qRaised = "none" /\ qTried = <<>> /\ qResult = <<>>
    /\ qReturn = "none"

DIdle ==
    /\ dBatch = <<>> /\ dDisk = {}
    /\ wPc = <<>> /\ wFetched = <<>> /\ wListed = <<>> /\ wLinks = <<>>
    /\ wI = <<>> /\ wSaved = <<>> /\ wResult = <<>> /\ wDoneOrder = <<>>
    /\ mPc = "off" /\ mIdx = 1 /\ mFilenames = <<>> /\ mRaised = "none"

SelInit ==
    /\ QIdle
    /\ DIdle
    /\ data \in SeqsUpTo(SelFiles, MaxLen)
    /\ t0 \in SelGrid
    /\ t1 \in {t0, t0 + Minutes(1)}
    /\ coverOut = NotCalled
    /\ dedupeOut = NotCalled

\* lastval_cover(t0, t1, get_validity_info(data))
CallLastvalCover ==
    /\ coverOut = NotCalled
    /\ coverOut' = lastval_cover(t0, t1, get_validity_info(data))
    /\ UNCHANGED <<data, t0, t1, dedupeOut, qVars, dVars>>

\* _dedupe_links([url + name for name in data])
SelLinks == [i \in 1..Len(data) |-> Link(SelUrl, data[i])]

CallDedupeLinks ==
    /\ dedupeOut = NotCalled
    /\ dedupeOut' = _dedupe_links(SelLinks)
    /\ UNCHANGED <<data, t0, t1, coverOut, qVars, dVars>>

SelNext == CallLastvalCover \/ CallDedupeLinks

SpecSel == SelInit /\ [][SelNext]_vars

---------------------------------------------------------------------------
\* ScihubGnssClient.query_orbit_by_dt against a catalog server
MaxBatch == 3
MaxCat == 2
MaxHalfDays == 3

Orderings(S) ==
    {f \in [1..Cardinality(S) -> S] : \A i, j \in 1..Cardinality(S) : f[i] = f[j] => i = j}

ProductOrbitType == [AUX_POEORB |-> PRECISE_ORBIT, AUX_RESORB |-> RESTITUTED_ORBIT]

QGrid == {k * Hours(12) : k \in 0..MaxHalfDays}
QWindows == {w \in QGrid \X QGrid : w[1] < w[2]}
QFiles == {<<m, ty, 1, w[1], w[2]>> :
              m \in Missions, ty \in {PRECISE_ORBIT, RESTITUTED_ORBIT}, w \in QWindows}
QRequests == {<<m, k * Hours(12)>> : m \in Missions, k \in 1..(MaxHalfDays - 1)}

\* The server's answers to query_orbit(t0, t1, satellite_id, product_type): the
\* products of that type and platform with beginposition <= t1 and
\* endposition >= t0, in any listing order, or a transport failure.
query_orbit(a, b, satellite_id, product_type) ==
    LET hits == {fn \in qCatalog :
                    /\ fn[2] = ProductOrbitType[product_type]
                    /\ fn[1] = satellite_id
                    /\ fn[4] <= b
                    /\ fn[5] >= a}
    IN  {[raised |-> "none", value |-> o] : o \in Orderings(hits)}
        \cup {[raised |-> "ServerError", value |-> <<>>]}

_select_orbit(products, a, b) ==
    IF products = <<>> THEN [raised |-> "none", value |-> {}]
    ELSE LET sel == lastval_cover(a, b, get_validity_info(products))
         IN  IF sel.raised # "none" THEN [raised |-> sel.raised, value |-> {}]
             ELSE [raised |-> "none",
                   value |-> {products[i] : i \in {j \in 1..Len(products) :
                                                      products[j] = sel.value}}]

\* result = self._select_orbit(products, dt, dt + 1 minute) if products else None
SelectResult(products, dt) ==
    IF products # <<>> THEN _select_orbit(products, dt, dt + Minutes(1))
    ELSE [raised |-> "none", value |-> {}]

QInit ==
    /\ SelIdle
    /\ DIdle
    /\ qCatalog \in {c \in SUBSET QFiles : Cardinality(c) <= MaxCat}
    /\ qBatch \in SeqsUpTo(QRequests, MaxBatch)
    /\ qOrbitType \in {"precise", "restituted"}
    /\ qIdx = 1
    /\ qPc = "loop"
    /\ qQuery = {}
    /\ qRemaining = <<>>
    /\ qRaised = "none"
    /\ qTried = [k \in 1..Len(qBatch) |-> <<>>]
    /\ qResult = [k \in 1..Len(qBatch) |-> [status |-> "pending", value |-> {}]]
    /\ qReturn = "none"

QRaise(exc) ==
    /\ qPc' = "raised"
    /\ qRaised' = exc
    /\ UNCHANGED <<qIdx, qQuery, qRemaining, qResult, qReturn>>

\* variant: a found result does not end the iteration
QFoundThenResorb(value) ==
    /\ qQuery' = qQuery \cup value
    /\ qResult' = [qResult EXCEPT ![qIdx] = [status |-> "resolved", value |-> value]]
    /\ qPc' = "resorb"
    /\ UNCHANGED <<qIdx, qRemaining, qRaised, qReturn>>

QFound(value) ==
    /\ qQuery' = qQuery \cup value
    /\ qResult' = [qResult EXCEPT ![qIdx] = [status |-> "resolved", value |-> value]]
    /\ qIdx' = qIdx + 1
    /\ qPc' = "loop"
    /\ UNCHANGED <<qRemaining, qRaised, qReturn>>

\* lines 130-141 and 145-147: the AUX_POEORB query of one loop iteration
QTryPrecise ==
    /\ qPc = "loop" /\ qIdx <= Len(qBatch) /\ qOrbitType = "precise"
    /\ LET mission == qBatch[qIdx][1]
           dt == qBatch[qIdx][2]
       IN  /\ qTried' = [qTried EXCEPT ![qIdx] = Append(@, "AUX_POEORB")]
           /\ \E resp \in query_orbit(dt - Days(1), dt + Days(1), mission, "AUX_POEORB") :
                 IF resp.raised # "none" THEN QRaise(resp.raised)
                 ELSE LET result == SelectResult(resp.value, dt)
                      IN  IF result.raised # "none" THEN QRaise(result.raised)
                          ELSE IF result.value # {} THEN QFound(result.value)
                          ELSE /\ qPc' = "resorb"
                               /\ UNCHANGED <<qIdx, qQuery, qRemaining, qRaised,
                                               qResult, qReturn>>
    /\ UNCHANGED <<qCatalog, qBatch, qOrbitType, selVars, dVars>>

\* lines 142-143: orbit_type is not "precise", result = None
QSkipPrecise ==
    /\ qPc = "loop" /\ qIdx <= Len(qBatch) /\ qOrbitType # "precise"
    /\ qPc' = "resorb"
    /\ UNCHANGED <<qCatalog, qBatch, qOrbitType, qIdx, qQuery, qRemaining,
                   qRaised, qTried, qResult, qReturn, selVars, dVars>>

\* lines 148-166: the AUX_RESORB query of the same iteration
QTryRestituted ==
    /\ qPc = "resorb"
    /\ LET mission == qBatch[qIdx][1]
           dt == qBatch[qIdx][2]
       IN  /\ qTried' = [qTried EXCEPT ![qIdx] = Append(@, "AUX_RESORB")]
           /\ \E resp \in query_orbit(dt - Hours(1), dt + Hours(1), mission, "AUX_RESORB") :
                 IF resp.raised # "none" THEN QRaise(resp.raised)
                 ELSE LET result == SelectResult(resp.value, dt)
                      IN  IF result.raised # "none" THEN QRaise(result.raised)
                          ELSE IF result.value # {} THEN QFound(result.value)
                          ELSE /\ qRemaining' = Append(qRemaining, qBatch[qIdx])
                               /\ qResult' = [qResult EXCEPT ![qIdx] =
                                                [status |-> "unresolved", value |-> {}]]
                               /\ qIdx' = qIdx + 1
                               /\ qPc' = "loop"
                               /\ UNCHANGED <<qQuery, qRaised, qReturn>>
    /\ UNCHANGED <<qCatalog, qBatch, qOrbitType, selVars, dVars>>

\* lines 168-170: the warning is logged and only query is returned
QReturn ==
    /\ qPc = "loop" /\ qIdx > Len(qBatch)
    /\ qPc' = "returned"
    /\ qReturn' = [query |-> qQuery]
    /\ UNCHANGED <<qCatalog, qBatch, qOrbitType, qIdx, qQuery, qRemaining,
                   qRaised, qTried, qResult, selVars, dVars>>

QNext == QTryPrecise \/ QSkipPrecise \/ QTryRestituted \/ QReturn

SpecQuery == QInit /\ [][QNext]_vars

---------------------------------------------------------------------------
\* download_eofs: a pool of _download_and_write workers over an archive server
MaxDlBatch == 2
MaxLinks == 2
MaxDlDays == 2

\* validity windows as the archive publishes them: from 23h of a day to 1h of a later day
DlWindows ==
    {w \in {<<Days(d) + Hours(23), Days(e) + Hours(1)>> :
               d \in 0..(MaxDlDays - 1), e \in 1..MaxDlDays} : w[1] < w[2]}
DlFiles(orbit_type) ==
    {<<m, orbit_type, 1, w[1], w[2]>> : m \in Missions, w \in DlWindows}
DlDts == {Days(1) + Hours(6), Days(1) + Hours(10)}
DlRequests == {<<m, dt>> : m \in Missions, dt \in DlDts}

Workers == 1..Len(dBatch)
Pending == [kind |-> "pending", value |-> <<>>]

\* lines 116-122: the listing url of an orbit type for start_dt
ValidityCreationDiff(orbit_type) ==
    IF orbit_type = PRECISE_ORBIT THEN Days(20) + Hours(12) ELSE Hours(4)
ListingUrl(start_dt, orbit_type) ==
    <<orbit_type, DateOf(start_dt + ValidityCreationDiff(orbit_type))>>

\* What requests.get(url) of a listing can give: a transport failure, an error
\* status, or a page whose EOF links are files of that directory.
ListingResponses(url) ==
    {[raised |-> "ConnectionError", status |-> 0, eof_links |-> <<>>]}
    \cup {[raised |-> "none", status |-> st, eof_links |-> <<>>] : st \in {404, 500}}
    \cup {[raised |-> "none", status |-> 200, eof_links |-> l] :
             l \in SeqsUpTo(DlFiles(url[1]), MaxLinks)}

\* line 142: links = [url + link for link in parser.eof_links if link.startswith(mission)]
MissionLinks(url, eof_links, mission) ==
    LET mine == SelectSeq(eof_links, LAMBDA fn : fn[1] = mission)
    IN  [i \in 1..Len(mine) |-> Link(url, mine[i])]

DInit ==
    /\ SelIdle
    /\ QIdle
    /\ dBatch \in SeqsUpTo(DlRequests, MaxDlBatch)
    /\ dDisk = {}
    /\ wPc = [k \in 1..Len(dBatch) |-> "list_precise"]
    /\ wFetched = [k \in 1..Len(dBatch) |-> <<>>]
    /\ wListed = [k \in 1..Len(dBatch) |-> [links |-> <<>>, orbit_type |-> "none"]]
    /\ wLinks = [k \in 1..Len(dBatch) |-> <<>>]
    /\ wI = [k \in 1..Len(dBatch) |-> 1]
    /\ wSaved = [k \in 1..Len(dBatch) |-> <<>>]
    /\ wResult = [k \in 1..Len(dBatch) |-> Pending]
    /\ wDoneOrder = <<>>
    /\ mPc = "collect"
    /\ mIdx = 1
    /\ mFilenames = <<>>
    /\ mRaised = "none"

\* the worker function ends: its AsyncResult holds a list, None or an exception
WFinish(k, kind, value) ==
    /\ wPc' = [wPc EXCEPT ![k] = "done"]
    /\ wResult' = [wResult EXCEPT ![k] = [kind |-> kind, value |-> value]]
    /\ wDoneOrder' = Append(wDoneOrder, k)

\* lines 195, 201-207: eof_list returned (links, orbit_type)
WListed(k, links, orbit_type) ==
    LET deduped == _dedupe_links(links).value
        cur_links == IF orbit_type = PRECISE_ORBIT
                     THEN _pick_precise_file(deduped, dBatch[k][2])
                     ELSE deduped
    IN  /\ wListed' = [wListed EXCEPT ![k] = [links |-> links, orbit_type |-> orbit_type]]
        /\ wLinks' = [wLinks EXCEPT ![k] = cur_links]
        /\ IF cur_links = <<>>
           THEN WFinish(k, "list", <<>>)
           ELSE /\ wPc' = [wPc EXCEPT ![k] = "check"]
                /\ UNCHANGED <<wResult, wDoneOrder>>
        /\ UNCHANGED <<wI, wSaved>>

\* variant: an empty listing of the precise directory raises at once
EofListOutcomeNoRetryOnEmpty(status, nlinks, orbit_type) ==
    IF status = 404
    THEN IF orbit_type = PRECISE_ORBIT THEN "retry" ELSE "ValueError"
    ELSE IF status >= 400 THEN "HTTPError"
    ELSE IF nlinks < 1 THEN "ValueError"
    ELSE "return"

\* lines 126-158: what eof_list does with the response to its listing request
EofListOutcome(status, nlinks, orbit_type) ==
    IF status = 404
    THEN IF orbit_type = PRECISE_ORBIT THEN "retry" ELSE "ValueError"
    ELSE IF status >= 400 THEN "HTTPError"
    ELSE IF nlinks < 1
    THEN IF orbit_type = PRECISE_ORBIT THEN "retry" ELSE "ValueError"
    ELSE "return"

\* eof_list(dt, mission, orbit_type): one listing request.  A retry is the
\* recursive call with RESTITUTED_ORBIT; a ValueError is caught at lines
\* 196-199 and the worker returns None; any other exception leaves the worker.
WEofList(k) ==
    /\ wPc[k] \in {"list_precise", "list_restituted"}
    /\ LET mission == dBatch[k][1]
           orbit_type == IF wPc[k] = "list_precise" THEN PRECISE_ORBIT
                         ELSE RESTITUTED_ORBIT
           url == ListingUrl(dBatch[k][2], orbit_type)
       IN  \E resp \in ListingResponses(url) :
              LET links == MissionLinks(url, resp.eof_links, mission)
                  outcome == IF resp.raised # "none" THEN resp.raised
                             ELSE EofListOutcome(resp.status, Len(links), orbit_type)
              IN  /\ wFetched' = [wFetched EXCEPT ![k] =
                         Append(@, [url |-> url, raised |-> resp.raised,
                                    status |-> resp.status, nlinks |-> Len(links)])]
                  /\ IF outcome = "return" THEN WListed(k, links, orbit_type)
                     ELSE IF outcome = "retry"
                     THEN /\ wPc' = [wPc EXCEPT ![k] = "list_restituted"]
                          /\ UNCHANGED <<wListed, wLinks, wI, wSaved, wResult, wDoneOrder>>
                     ELSE IF outcome = "ValueError"
                     THEN /\ WFinish(k, "None", <<>>)
                          /\ UNCHANGED <<wListed, wLinks, wI, wSaved>>
                     ELSE /\ WFinish(k, "exception", outcome)
                          /\ UNCHANGED <<wListed, wLinks, wI, wSaved>>
    /\ UNCHANGED <<dBatch, dDisk, mVars, selVars, qVars>>

\* lines 208-213: os.path.isfile(fname)
WCheckExists(k) ==
    /\ wPc[k] = "check"
    /\ LET fname == Basename(wLinks[k][wI[k]])
       IN  IF fname \in dDisk
           THEN WFinish(k, "list", <<fname>>)
           ELSE /\ wPc' = [wPc EXCEPT ![k] = "get"]
                /\ UNCHANGED <<wResult, wDoneOrder>>
    /\ UNCHANGED <<dBatch, dDisk, wFetched, wListed, wLinks, wI, wSaved,
                   mVars, selVars, qVars>>

\* lines 215-222: requests.get(link), raise_for_status, the write, and the
\* end of the loop after the last link
WGetAndWrite(k) ==
    /\ wPc[k] = "get"
    /\ LET fname == Basename(wLinks[k][wI[k]])
       IN  \E outcome \in {"ok", "ConnectionError", "HTTPError"} :
              IF outcome # "ok"
              THEN WFinish(k, "exception", outcome)
                   /\ UNCHANGED <<dDisk, wI, wSaved>>
              ELSE /\ dDisk' = dDisk \cup {fname}
                   /\ wSaved' = [wSaved EXCEPT ![k] = Append(@, fname)]
                   /\ wI' = [wI EXCEPT ![k] = @ + 1]
                   /\ IF wI[k] = Len(wLinks[k])
                      THEN WFinish(k, "list", Append(wSaved[k], fname))
                      ELSE /\ wPc' = [wPc EXCEPT ![k] = "check"]
                           /\ UNCHANGED <<wResult, wDoneOrder>>
    /\ UNCHANGED <<dBatch, wFetched, wListed, wLinks, mVars, selVars, qVars>>

\* variant: the results are gathered as the tasks end
MCollectByCompletion ==
    /\ mPc = "collect" /\ mIdx <= Len(dBatch)
    /\ mIdx <= Len(wDoneOrder)
    /\ LET res == wResult[wDoneOrder[mIdx]]
       IN  IF res.kind = "exception"
           THEN /\ mPc' = "raised"
                /\ mRaised' = res.value
                /\ UNCHANGED <<mIdx, mFilenames>>
           ELSE IF res.kind = "None"
           THEN /\ mPc' = "raised"
                /\ mRaised' = "TypeError"
                /\ UNCHANGED <<mIdx, mFilenames>>
           ELSE /\ mFilenames' = mFilenames \o res.value
                /\ mIdx' = mIdx + 1
                /\ UNCHANGED <<mPc, mRaised>>
    /\ UNCHANGED <<dBatch, dDisk, wVars, selVars, qVars>>

\* lines 87-91: result.get() of the next AsyncResult, in submission order
MCollect ==
    /\ mPc = "collect" /\ mIdx <= Len(dBatch)
    /\ wResult[mIdx].kind # "pending"
    /\ IF wResult[mIdx].kind = "exception"
       THEN /\ mPc' = "raised"
            /\ mRaised' = wResult[mIdx].value
            /\ UNCHANGED <<mIdx, mFilenames>>
       ELSE IF wResult[mIdx].kind = "None"
       THEN /\ mPc' = "raised"
            /\ mRaised' = "TypeError"
            /\ UNCHANGED <<mIdx, mFilenames>>
       ELSE /\ mFilenames' = mFilenames \o wResult[mIdx].value
            /\ mIdx' = mIdx + 1
            /\ UNCHANGED <<mPc, mRaised>>
    /\ UNCHANGED <<dBatch, dDisk, wVars, selVars, qVars>>

\* line 92
MReturn ==
    /\ mPc = "collect" /\ mIdx > Len(dBatch)
    /\ mPc' = "returned"
    /\ UNCHANGED <<dBatch, dDisk, wVars, mIdx, mFilenames, mRaised, selVars, qVars>>

DNext ==
    \/ \E k \in Workers : WEofList(k)
    \/ \E k \in Workers : WCheckExists(k)
    \/ \E k \in Workers : WGetAndWrite(k)
    \/ MCollect
    \/ MReturn

SpecDl == DInit /\ [][DNext]_vars

\* download_eofs for a single date (main() with --date and --mission), into a
\* save_dir that is empty or already holds one orbit file
ExistingFiles ==
    {{}} \cup {{fn} : fn \in DlFiles(PRECISE_ORBIT) \cup DlFiles(RESTITUTED_ORBIT)}

SingleInit ==
    /\ SelIdle
    /\ QIdle
    /\ dBatch \in {<<r>> : r \in DlRequests}
    /\ dDisk \in ExistingFiles
    /\ wPc = <<"list_precise">>
    /\ wFetched = <<<<>>>>
    /\ wListed = <<[links |-> <<>>, orbit_type |-> "none"]>>
    /\ wLinks = <<<<>>>>
    /\ wI = <<1>>
    /\ wSaved = <<<<>>>>
    /\ wResult = <<Pending>>
    /\ wDoneOrder = <<>>
    /\ mPc = "collect"
    /\ mIdx = 1
    /\ mFilenames = <<>>
    /\ mRaised = "none"

SpecSingle == SingleInit /\ [][DNext]_vars

\* the subsets of S of at most n elements
RECURSIVE SubsetsUpTo(_, _)
SubsetsUpTo(S, n) ==
    IF n = 0 THEN {{}}
    ELSE LET smaller == SubsetsUpTo(S, n - 1)
         IN  smaller \cup {c \cup {x} : c \in smaller, x \in S}

\* query_orbit_for_product: query_orbit_by_dt for the one (mission, start_time)
\* of a product
QProductInit ==
    /\ SelIdle
    /\ DIdle
    /\ qCatalog \in SubsetsUpTo(QFiles, MaxCat)
    /\ qBatch \in {<<r>> : r \in QRequests}
    /\ qOrbitType \in {"precise", "restituted"}
    /\ qIdx = 1
    /\ qPc = "loop"
    /\ qQuery = {}
    /\ qRemaining = <<>>
    /\ qRaised = "none"
    /\ qTried = <<<<>>>>
    /\ qResult = <<[status |-> "pending", value |-> {}]>>
    /\ qReturn = "none"

\* one request through either cascade: query_orbit_for_product, or
\* download_eofs for a single date
SpecCascade == (QProductInit \/ SingleInit) /\ [][QNext \/ DNext]_vars

\* any one of the three: the selector on drawn inputs, a catalog query batch,
\* a download batch
Init == SelInit \/ QInit \/ DInit
Next == SelNext \/ QNext \/ DNext
Spec == Init /\ [][Next]_vars

---------------------------------------------------------------------------
\* Properties of the selector and the deduplicator (SpecSel)

CoveringIdx == {i \in 1..Len(data) : data[i][4] <= t0 /\ data[i][5] >= t1}
PartialIdx == {i \in 1..Len(data) :
                 /\ data[i][4] <= t1 /\ data[i][5] >= t0
                 /\ ~(data[i][4] <= t0 /\ data[i][5] >= t1)}

\* C4: lastval_cover returns a candidate with start <= t0 and stop >= t1
\* whenever the input holds one, and raises ValidityError exactly when it
\* holds none; a candidate that only overlaps [t0, t1] is never returned.
C4_SelectorCoversOrFails ==
    coverOut.raised \notin {"notcalled", "off"} =>
        /\ CoveringIdx # {} =>
              /\ coverOut.raised = "none"
              /\ \E i \in CoveringIdx : data[i] = coverOut.value
        /\ CoveringIdx = {} <=> coverOut.raised = "ValidityError"
        /\ coverOut.raised = "none" =>
              \A i \in PartialIdx : data[i] # coverOut.value

C4_Witness ==
    /\ coverOut.raised = "none"
    /\ PartialIdx # {}
    /\ t0 < t1

\* C5: the file lastval_cover returns has the greatest creation time among
\* the candidates covering [t0, t1], whatever the order of the input.
C5_SelectorLatestCreated ==
    coverOut.raised = "none" =>
        \A i \in CoveringIdx : coverOut.value[3] >= data[i][3]

C5_Witness ==
    /\ coverOut.raised = "none"
    /\ \E i, j \in CoveringIdx :
          /\ i < j
          /\ data[i][3] < data[j][3]
          /\ data[i][4] = data[j][4] /\ data[i][5] = data[j][5]
          /\ coverOut.value = data[j]

\* the linear scan that compares each link with the last kept one
RECURSIVE LastKeptScan(_, _)
LastKeptScan(links, lastDate) ==
    IF links = <<>> THEN <<>>
    ELSE IF DateOf(Head(links)[2][4]) # lastDate
         THEN <<Head(links)>> \o LastKeptScan(Tail(links), DateOf(Head(links)[2][4]))
         ELSE LastKeptScan(Tail(links), lastDate)

\* C6: _dedupe_links keeps the first link and keeps a later link iff its
\* validity-start day differs from that of the last kept link, so its output
\* equals the linear scan against the last kept element.
C6_DedupeIsLastKeptScan ==
    dedupeOut.raised = "none" =>
        dedupeOut.value =
            <<SelLinks[1]>> \o LastKeptScan(Tail(SelLinks), DateOf(SelLinks[1][2][4]))

RECURSIVE IsSubsequence(_, _)
IsSubsequence(sub, full) ==
    IF sub = <<>> THEN TRUE
    ELSE IF full = <<>> THEN FALSE
    ELSE IF Head(sub) = Head(full) THEN IsSubsequence(Tail(sub), Tail(full))
    ELSE IsSubsequence(sub, Tail(full))

StartDay(link) == DateOf(link[2][4])
UniqueDayIdx == {i \in 1..Len(SelLinks) :
                   \A j \in 1..Len(SelLinks) :
                      j # i => StartDay(SelLinks[j]) # StartDay(SelLinks[i])}

\* C7: for a non-empty list the output of _dedupe_links is a subsequence of
\* the input, never longer, and every validity-start day carried by exactly
\* one input link is still carried by an output link.
C7_DedupeSubsequenceKeepsUnique ==
    (dedupeOut # NotCalled /\ data # <<>>) =>
        /\ dedupeOut.raised = "none"
        /\ IsSubsequence(dedupeOut.value, SelLinks)
        /\ Len(dedupeOut.value) <= Len(SelLinks)
        /\ \A i \in UniqueDayIdx :
              \E k \in 1..Len(dedupeOut.value) :
                 StartDay(dedupeOut.value[k]) = StartDay(SelLinks[i])

C7_Witness ==
    /\ dedupeOut.raised = "none"
    /\ Len(dedupeOut.value) < Len(SelLinks)
    /\ \E i \in UniqueDayIdx : i > 1

---------------------------------------------------------------------------
\* Properties of query_orbit_by_dt (SpecQuery) and download_eofs (SpecDl)

QEnded == qPc \in {"returned", "raised"}
QOver(k) == k < qIdx \/ QEnded
DEnded == mPc \in {"returned", "raised"}

\* C1: a PRECISE attempt that yields no result (no candidate, or candidates
\* none of which covers [dt, dt + 1 minute]) is followed by a RESTITUTED
\* attempt for the same request, and ValidityError never leaves the batch call.
C1_PreciseFailureFallsBack ==
    /\ qRaised # "ValidityError"
    /\ \A k \in 1..Len(qBatch) :
          (QOver(k) /\ qTried[k] = <<"AUX_POEORB">>) =>
              \/ qResult[k].status = "resolved"
              \/ qRaised = "ServerError"

\* what one request resolves to on its own against the same catalog
QTierValues(req, product_type, margin) ==
    {SelectResult(r.value, req[2]) :
        r \in {x \in query_orbit(req[2] - margin, req[2] + margin, req[1], product_type) :
                  x.raised = "none"}}
QAloneValues(req) ==
    LET precise == IF qOrbitType = "precise"
                   THEN QTierValues(req, "AUX_POEORB", Days(1))
                   ELSE {[raised |-> "none", value |-> {}]}
        restituted == QTierValues(req, "AUX_RESORB", Hours(1))
    IN  ({p.value : p \in {x \in precise : x.raised = "none"}} \ {{}})
        \cup (IF \E p \in precise : p.raised = "none" /\ p.value = {}
              THEN {r.value : r \in {x \in restituted : x.raised = "none"}}
              ELSE {})

\* C2: every request of a batch is resolved on its own: once the batch call
\* has ended, each request other than one that failed has been attempted and
\* has the result it gets alone, in query_orbit_by_dt and in download_eofs
\* (where every AsyncResult other than a failed one has been collected).
C2_RequestsIndependent ==
    /\ QEnded =>
          \A k \in 1..Len(qBatch) :
             \/ qPc = "raised" /\ k = qIdx
             \/ /\ qResult[k].status # "pending"
                /\ qResult[k].value \in QAloneValues(qBatch[k])
    /\ DEnded =>
          \A k \in 1..Len(dBatch) :
             \/ mPc = "raised" /\ k = mIdx
             \/ k < mIdx

\* the unresolved requests a returned value carries
ReportedUnresolved(ret) ==
    IF "unresolved" \in DOMAIN ret THEN {ret.unresolved[i] : i \in DOMAIN ret.unresolved}
    ELSE {}

\* C3: a request that both tiers fail to resolve is reported as unresolved in
\* the value the batch call returns, and the batch call does not raise for it:
\* no ValidityError out of the RESTITUTED attempt of query_orbit_by_dt, no
\* exception out of download_eofs when a worker found no files in either tier
\* and returned None.
C3_UnresolvedReportedNotRaised ==
    /\ ~(qPc = "raised" /\ qRaised = "ValidityError"
           /\ qTried[qIdx][Len(qTried[qIdx])] = "AUX_RESORB")
    /\ qPc = "returned" =>
          \A k \in 1..Len(qBatch) :
             qResult[k].status = "unresolved" =>
                 qBatch[k] \in ReportedUnresolved(qReturn)
    /\ \A k \in 1..Len(dBatch) :
          (wResult[k].kind = "None" /\ k <= mIdx) => mPc # "raised"

\* the links _dedupe_links hands on for what eof_list returned to worker k
DedupedOf(k) == _dedupe_links(wListed[k].links).value
Straddles(link, dt) ==
    /\ DateOf(link[2][4]) = DateOf(dt) - 1
    /\ DateOf(link[2][5]) = DateOf(dt) + 1

\* C8: on a PRECISE listing cur_links is exactly the deduplicated links whose
\* validity start falls on the day before dt and whose validity stop falls on
\* the day after, in their order; a RESTITUTED listing is not filtered.
C8_PreciseWindowFilter ==
    \A k \in 1..Len(dBatch) :
       /\ wListed[k].orbit_type = PRECISE_ORBIT =>
             wLinks[k] = SelectSeq(DedupedOf(k), LAMBDA l : Straddles(l, dBatch[k][2]))
       /\ wListed[k].orbit_type = RESTITUTED_ORBIT => wLinks[k] = DedupedOf(k)

C8_Witness ==
    \E k \in 1..Len(dBatch) :
       /\ wListed[k].orbit_type = PRECISE_ORBIT
       /\ wLinks[k] # <<>>
       /\ Len(wLinks[k]) < Len(DedupedOf(k))

FirstFetch(k) == wFetched[k][1]
PreciseUnavailable(k, statuses) ==
    /\ Len(wFetched[k]) >= 1
    /\ FirstFetch(k).raised = "none"
    /\ \/ FirstFetch(k).status \in statuses
       \/ FirstFetch(k).status = 200 /\ FirstFetch(k).nlinks = 0
Retried(k) ==
    \/ wPc[k] = "list_restituted"
    \/ /\ Len(wFetched[k]) = 2
       /\ wFetched[k][2].url[1] = RESTITUTED_ORBIT
TagsFollowSource(k) ==
    wListed[k].orbit_type # "none" =>
        /\ wListed[k].orbit_type = wFetched[k][Len(wFetched[k])].url[1]
        /\ wListed[k].orbit_type = PRECISE_ORBIT <=> Len(wFetched[k]) = 1
        /\ \A i \in 1..Len(wListed[k].links) :
              wListed[k].links[i][1] = wFetched[k][Len(wFetched[k])].url

C10_TransportErrorIsolated ==
    /\ qPc = "raised" => qRaised # "ServerError"
    /\ mPc = "raised" => mRaised # "ConnectionError"

---------------------------------------------------------------------------
\* Properties of the pool of download_eofs (SpecDl)

\* the lists of the first n tasks, joined in the order of the requests
RECURSIVE ResultsInRequestOrder(_)
ResultsInRequestOrder(n) ==
    IF n = 0 THEN <<>>
    ELSE ResultsInRequestOrder(n - 1) \o wResult[n].value

---------------------------------------------------------------------------
\* Properties of the PRECISE attempt in both operations (Spec)

\* the precise-window filter's condition for a request at time T
InPreciseWindow(fn, T) ==
    /\ DateOf(SentinelOrbit(fn).start_time) = DateOf(T) - 1
    /\ DateOf(SentinelOrbit(fn).stop_time) = DateOf(T) + 1

\* the covering selector's condition for [T, T + 1 minute]
CoversMinute(fn, T) ==
    /\ SentinelOrbit(fn).start_time <= T
    /\ SentinelOrbit(fn).stop_time >= T + Minutes(1)

\* what the PRECISE attempt of _download_and_write kept for worker k
DlPreciseKept(k) ==
    IF wListed[k].orbit_type = PRECISE_ORBIT THEN wLinks[k] ELSE <<>>

\* C12: every result of the PRECISE attempt for a request at time T, in
\* query_orbit_by_dt and in _download_and_write, starts on date(T) - 1, stops
\* on date(T) + 1, covers [T, T + 1 minute], and is the only one selected.
C12_PreciseResultPassedAllThree ==
    /\ \A k \in 1..Len(qBatch) :
          \A fn \in qResult[k].value :
             SentinelOrbit(fn).orbit_type = PRECISE_ORBIT =>
                /\ InPreciseWindow(fn, qBatch[k][2])
                /\ CoversMinute(fn, qBatch[k][2])
                /\ Cardinality(qResult[k].value) <= 1
    /\ \A k \in Workers :
          /\ Len(DlPreciseKept(k)) <= 1
          /\ \A i \in 1..Len(DlPreciseKept(k)) :
                /\ InPreciseWindow(Basename(DlPreciseKept(k)[i]), dBatch[k][2])
                /\ CoversMinute(Basename(DlPreciseKept(k)[i]), dBatch[k][2])

---------------------------------------------------------------------------
\* Properties of the two-tier cascade of one request (SpecCascade)

\* the PRECISE query of request k can only come back without products
NoPreciseProducts(k) ==
    \A resp \in query_orbit(qBatch[k][2] - Days(1), qBatch[k][2] + Days(1),
                             qBatch[k][1], "AUX_POEORB") : resp.value = <<>>

\* the tiers query_orbit_by_dt asked for request k, against the outcome
QTiersInOrder(k) ==
    /\ qTried[k] \in {<<>>, <<"AUX_POEORB">>, <<"AUX_POEORB", "AUX_RESORB">>,
                      <<"AUX_RESORB">>}
    /\ qTried[k] = <<"AUX_RESORB">> => qOrbitType # "precise"
    /\ (qTried[k] # <<>> /\ qTried[k][1] = "AUX_POEORB") => qOrbitType = "precise"
    /\ qTried[k] = <<"AUX_POEORB", "AUX_RESORB">> => NoPreciseProducts(k)
    /\ \A fn \in qResult[k].value :
          SentinelOrbit(fn).orbit_type = PRECISE_ORBIT => qTried[k] = <<"AUX_POEORB">>

\* the listing requests eof_list made for worker k, against the outcome
ListingsInOrder(k) ==
    /\ Len(wFetched[k]) <= 2
    /\ Len(wFetched[k]) >= 1 =>
          wFetched[k][1].url = ListingUrl(dBatch[k][2], PRECISE_ORBIT)
    /\ Len(wFetched[k]) = 2 =>
          /\ wFetched[k][2].url = ListingUrl(dBatch[k][2], RESTITUTED_ORBIT)
          /\ PreciseUnavailable(k, {404})
    /\ wListed[k].orbit_type = PRECISE_ORBIT => Len(wFetched[k]) = 1
    /\ wPc[k] = "list_precise" <=> Len(wFetched[k]) = 0

C13_TiersInOrder ==
    /\ \A k \in 1..Len(qBatch) : QTiersInOrder(k)
    /\ \A k \in Workers : ListingsInOrder(k)

\* what is left of the call of query_orbit_by_dt: 0 once it returned or raised
QRank ==
    IF qPc \in {"returned", "raised", "off"} THEN 0
    ELSE 1 + 2 * (Len(qBatch) + 1 - qIdx) + (IF qPc = "loop" THEN 1 ELSE 0)

\* what is left of worker k's call of eof_list: 0 once it returned or raised
EofListRank(k) ==
    IF wPc[k] = "list_precise" THEN 2
    ELSE IF wPc[k] = "list_restituted" THEN 1
    ELSE 0

\* every step of a cascade brings it nearer to its end, and never back a tier
C13_StepAdvances ==
    /\ qVars' # qVars => QRank' < QRank
    /\ \A k \in Workers :
          /\ EofListRank(k)' <= EofListRank(k)
          /\ wFetched'[k] # wFetched[k] => EofListRank(k)' < EofListRank(k)

\* C13: per request the tiers are asked in the order PRECISE, RESTITUTED, each
\* at most once; RESTITUTED is asked only after a PRECISE attempt without
\* result (or alone, when orbit_type is not "precise") and never after a
\* PRECISE result; eof_list makes at most two listing requests, the second
\* one RESTITUTED; and every query or listing request strictly lowers a
\* natural-number rank, so the cascade ends.
C13_CascadeOrderedAndEnds ==
    []C13_TiersInOrder /\ [][C13_StepAdvances]_vars

\* query_orbit_by_dt returned after asking PRECISE, then RESTITUTED, and the
\* RESTITUTED attempt resolved the request
C13_Witness ==
    /\ qPc = "returned" /\ Len(qBatch) = 1
    /\ qTried[1] = <<"AUX_POEORB", "AUX_RESORB">>
    /\ qResult[1].status = "resolved"
    /\ \E fn \in qResult[1].value : SentinelOrbit(fn).orbit_type = RESTITUTED_ORBIT

---------------------------------------------------------------------------
\* Properties of the writes into save_dir (SpecDl)

\* how many times the workers have written the file fname: every write is
\* followed by saved_files.append(fname)
WriteCount(fname) ==
    Cardinality(UNION {{<<k, i>> : i \in {j \in 1..Len(wSaved[k]) :
                                              wSaved[k][j] = fname}} :
                       k \in Workers})

\* C14: under every interleaving of the workers of one download_eofs call,
\* no file of save_dir is downloaded and written more than once, two
\* requests that select the same orbit file included.
C14_NoFileWrittenTwice ==
    \A fname \in dDisk : WriteCount(fname) <= 1

====
